---- MODULE Spec2Model ----
(***************************************************************************)
(* Model of port_entity_exporter.py: the command-line run of main(), the   *)
(* PortEntityExporter catalog client (authenticate, get_blueprints,        *)
(* get_entities_for_blueprint, get_entity), the three export planners and  *)
(* save_entities.                                                          *)
(*                                                                         *)
(* Representation.                                                         *)
(*  - A Python dict with string keys whose key set varies (an entity, a    *)
(*    blueprint descriptor, a csv row) is a TLA+ function on its key set,  *)
(*    so d.get(k) is a test of k \in DOMAIN d.                             *)
(*  - A Python dict whose insertion order matters (the export result) is a *)
(*    sequence of [k, v] pairs.                                            *)
(*  - A comma separated option is the sequence of its pieces, that is the  *)
(*    value of text.split(','); the empty text "" is <<"">>.               *)
(*  - An entity spec is a text; SpecPieces tabulates its split on ':'.     *)
(*  - A property or relation value is a tagged record, so that str(v) is   *)
(*    computed and not assumed.                                            *)
(***************************************************************************)
EXTENDS Integers, Sequences, FiniteSets, TLC

\* ---------------------------------------------------------------- bounds

\* Longest --entities list (number of comma separated specs).
MaxSpecs == 2

\* Longest --blueprints list (number of comma separated pieces).
MaxBlueprintArgs == 2

\* ------------------------------------------------------- values and dicts

StrV(s) == [t |-> "str", s |-> s]
IntV(n) == [t |-> "int", n |-> n]
NullV == [t |-> "null"]

\* {} : the dict with no key.
EmptyMap == <<>>

\* str(value) if value is not None else ''
CellText(value) ==
    CASE value.t = "null" -> ""
      [] value.t = "int" -> ToString(value.n)
      [] OTHER -> value.s

\* d.get(key, default)
Get(d, key, default) == IF key \in DOMAIN d THEN d[key] ELSE default

\* bool(d.get('identifier')): the key is there and its text is not empty.
HasIdentifier(d) == "identifier" \in DOMAIN d /\ d["identifier"] # ""

\* Ordered dict: key in d
DictHas(d, k) == \E i \in 1..Len(d) : d[i].k = k

\* Ordered dict: d[k], for a key that is there
DictGet(d, k) == d[CHOOSE i \in 1..Len(d) : d[i].k = k].v

\* Ordered dict: d[k] = v (a key that is there keeps its place)
DictSet(d, k, v) ==
    IF DictHas(d, k)
    THEN [i \in 1..Len(d) |-> IF d[i].k = k THEN [k |-> k, v |-> v] ELSE d[i]]
    ELSE Append(d, [k |-> k, v |-> v])

DictKeys(d) == {d[i].k : i \in 1..Len(d)}

\* --------------------------------------------------------------- catalog

DbInfra ==
    [identifier |-> "db-1", title |-> "Database",
     properties |-> [env |-> StrV("prod"), tier |-> IntV(1)],
     relations |-> [owner |-> StrV("team-a")]]

WebInfra ==
    [identifier |-> "web-1", createdAt |-> "2024-01-01",
     properties |-> [env |-> NullV],
     relations |-> EmptyMap]

DbNet ==
    [identifier |-> "db-1", title |-> "Net database",
     relations |-> [owner |-> NullV]]

WebNet ==
    [identifier |-> "web-1", title |-> "Net web",
     properties |-> [env |-> StrV("dev")]]

\* An entity the server returns without an identifier key.
NoIdEntity == [title |-> "orphan", properties |-> [tier |-> IntV(2)]]

\* An entity whose identifier is the empty text.
EmptyIdEntity == [identifier |-> "", title |-> "blank"]

\* A server state: the blueprint descriptors GET /blueprints returns and the
\* entities of each blueprint that exists.
CatalogPlain ==
    [blueprints |-> <<[identifier |-> "infra"], [identifier |-> "net"]>>,
     entities |-> [infra |-> <<DbInfra, WebInfra>>, net |-> <<DbNet>>]]

CatalogOdd ==
    [blueprints |-> <<[title |-> "anonymous"], [identifier |-> "infra"],
                      [identifier |-> "net"]>>,
     entities |-> [infra |-> <<NoIdEntity, DbInfra, EmptyIdEntity, WebInfra>>,
                   net |-> <<WebNet, DbNet>>]]

Catalogs == {CatalogPlain, CatalogOdd}

\* -------------------------------------------------------- command line

\* Non-empty sequences over S of length at most n.
SeqsUpTo(S, n) == UNION {[1..m -> S] : m \in 1..n}

\* An option that takes text: absent (None) or given with its pieces.
NotGiven == [given |-> FALSE, parts |-> <<>>]
Given(parts) == [given |-> TRUE, parts |-> parts]

\* bool(option) for a text option: None and '' are false.
OptionChosen(option) == option.given /\ option.parts # <<"">>

\* [item.strip() for item in text.split(',') if item.strip()]
ParseList(option) == SelectSeq(option.parts, LAMBDA item : item # "")

BlueprintPieces == {"infra", "net", ""}
BlueprintOptions ==
    {NotGiven} \cup {Given(p) : p \in SeqsUpTo(BlueprintPieces, MaxBlueprintArgs)}

\* The entity specs the runs draw from, and what ':' in spec and
\* spec.split(':', 1) make of each.
SpecTexts == {"infra:db-1", "db-1", "net:web-1"}

SpecPieces ==
    ("infra:db-1" :> <<"infra", "db-1">>) @@ ("db-1" :> <<"db-1">>)
        @@ ("net:web-1" :> <<"net", "web-1">>)

\* ':' in spec
HasColon(spec) == Len(SpecPieces[spec]) > 1

EntityOptions ==
    {NotGiven} \cup {Given(p) : p \in SeqsUpTo(SpecTexts, MaxSpecs)}

ExcludeOptions ==
    {NotGiven, Given(<<"db-1">>), Given(<<"web-1", "", "db-1">>)}

Formats == {"json", "yaml", "csv"}

\* ----------------------------------------------------------------- state

VARIABLES
    has_credentials,  \* client_id and client_secret are both given
    export_all,       \* --all
    blueprints,       \* --blueprints
    entities,         \* --entities
    exclude,          \* --exclude
    format,           \* --format
    catalog,          \* the server's state
    io_state,         \* the output file before the run: "absent" or "old"
    pc,               \* where main() is
    authorization,    \* the session's Authorization header: "none", "bearer"
    exclude_set,      \* main's exclude_set
    exported,         \* the planner's dict (all_entities, selected_entities, ...)
    queue,            \* what the planner's current loop has still to visit
    bare,             \* entities_without_blueprint
    inner,            \* index into bare of the inner loop
    calls,            \* the catalog requests sent so far, in order
    file,             \* the output file
    summary,          \* the success summary was printed
    exit_code,        \* the process's exit status, -1 while it runs
    exit_why,         \* which exit was taken
    auth_outcome,     \* what the token endpoint answered, "none" before
    planner           \* the planner main called, "none" before

vars ==
    <<has_credentials, export_all, blueprints, entities, exclude, format,
      catalog, io_state, pc, authorization, exclude_set, exported, queue, bare,
      inner, calls, file, summary, exit_code, exit_why, auth_outcome, planner>>

inputs ==
    <<has_credentials, export_all, blueprints, entities, exclude, format,
      catalog, io_state>>

\* The positions of main() at which the planner is retrieving.
RetrievalPcs ==
    {"all_blueprints", "all_loop", "bp_loop", "ent_explicit", "ent_blueprints",
     "ent_search"}

\* -------------------------------------------------------- catalog client

\* What the token endpoint can answer.
AuthOutcomes == {"ok", "transport_error", "http_error", "no_token"}

\* An authenticate() that does not test the token it read.
authenticate_WithoutTokenTest(outcome) == outcome \in {"ok", "no_token"}

\* authenticate(): True only when a token came back.
authenticate(outcome) == outcome = "ok"

\* get_blueprints(): the descriptors, or [] on any failure.
get_blueprints(ok) ==
    [raised |-> FALSE, value |-> IF ok THEN catalog.blueprints ELSE <<>>]

\* A get_entities_for_blueprint() that lets a failed request raise.
get_entities_for_blueprint_Raising(blueprint_id, ok) ==
    [raised |-> ~(ok /\ blueprint_id \in DOMAIN catalog.entities),
     value |-> IF ok /\ blueprint_id \in DOMAIN catalog.entities
               THEN catalog.entities[blueprint_id]
               ELSE <<>>]

\* get_entities_for_blueprint(): the entities, or [] on any failure; a
\* blueprint the server does not know is a 404, a failure.
get_entities_for_blueprint(blueprint_id, ok) ==
    [raised |-> FALSE,
     value |-> IF ok /\ blueprint_id \in DOMAIN catalog.entities
               THEN catalog.entities[blueprint_id]
               ELSE <<>>]

\* The server's answer to GET /blueprints/{b}/entities/{e}: the entities of b
\* that carry identifier e (none: 404).
StoredEntity(blueprint_id, entity_id) ==
    IF blueprint_id \in DOMAIN catalog.entities
    THEN SelectSeq(catalog.entities[blueprint_id],
                   LAMBDA e : HasIdentifier(e) /\ e["identifier"] = entity_id)
    ELSE <<>>

\* get_entity(): <<entity>> when found, <<>> (None) when not found or on any
\* failure.
get_entity(blueprint_id, entity_id, ok) ==
    [raised |-> FALSE,
     value |-> IF ok /\ StoredEntity(blueprint_id, entity_id) # <<>>
               THEN <<Head(StoredEntity(blueprint_id, entity_id))>>
               ELSE <<>>]

\* --------------------------------------------------------------- planner

\* A filter that forgets the exclusion set.
Kept_IgnoresExclusion(entity, exclude_entities) == HasIdentifier(entity)

\* The condition under which the filter loop keeps an entity.
Kept(entity, exclude_entities) ==
    HasIdentifier(entity) /\ entity["identifier"] \notin exclude_entities

\* The filter loop: filtered_entities, built by appending in order.
RECURSIVE FilterEntities(_, _)
FilterEntities(entity_seq, exclude_entities) ==
    IF entity_seq = <<>> THEN <<>>
    ELSE LET rest == FilterEntities(Tail(entity_seq), exclude_entities)
         IN  IF Kept(Head(entity_seq), exclude_entities)
             THEN <<Head(entity_seq)>> \o rest
             ELSE rest

\* A store without the test for an empty selection.
StoreFiltered_Always(d, blueprint_id, filtered) == DictSet(d, blueprint_id, filtered)

\* if filtered_entities: d[blueprint_id] = filtered_entities
StoreFiltered(d, blueprint_id, filtered) ==
    IF filtered # <<>> THEN DictSet(d, blueprint_id, filtered) ELSE d

\* An append that applies the exclusion set to a found entity.
AppendFound_Excluding(d, blueprint_id, found) ==
    IF found = <<>> \/ found[1]["identifier"] \in exclude_set THEN d
    ELSE IF DictHas(d, blueprint_id)
         THEN DictSet(d, blueprint_id, Append(DictGet(d, blueprint_id), found[1]))
         ELSE DictSet(d, blueprint_id, <<found[1]>>)

\* An append that drops an entity whose identifier is already in the result
\* under another collection.
AppendFound_OncePerIdentifier(d, blueprint_id, found) ==
    IF \/ found = <<>>
       \/ \E i \in 1..Len(d) : \E j \in 1..Len(d[i].v) :
              d[i].k # blueprint_id /\ d[i].v[j]["identifier"] = found[1]["identifier"]
    THEN d
    ELSE IF DictHas(d, blueprint_id)
         THEN DictSet(d, blueprint_id, Append(DictGet(d, blueprint_id), found[1]))
         ELSE DictSet(d, blueprint_id, <<found[1]>>)

\* An append that drops an entity the collection's sequence already holds.
AppendFound_Deduplicating(d, blueprint_id, found) ==
    IF found = <<>> THEN d
    ELSE IF DictHas(d, blueprint_id)
         THEN IF \E j \in 1..Len(DictGet(d, blueprint_id)) :
                     DictGet(d, blueprint_id)[j] = found[1]
              THEN d
              ELSE DictSet(d, blueprint_id, Append(DictGet(d, blueprint_id), found[1]))
         ELSE DictSet(d, blueprint_id, <<found[1]>>)

\* An append that puts the found entity at the front of the sequence.
AppendFound_AtFront(d, blueprint_id, found) ==
    IF found = <<>> THEN d
    ELSE IF DictHas(d, blueprint_id)
         THEN DictSet(d, blueprint_id, <<found[1]>> \o DictGet(d, blueprint_id))
         ELSE DictSet(d, blueprint_id, <<found[1]>>)

\* if entity: d.setdefault(blueprint_id, []).append(entity)
AppendFound(d, blueprint_id, found) ==
    IF found = <<>> THEN d
    ELSE IF DictHas(d, blueprint_id)
         THEN DictSet(d, blueprint_id, Append(DictGet(d, blueprint_id), found[1]))
         ELSE DictSet(d, blueprint_id, <<found[1]>>)

\* The specs with a ':' and those without, each in input order.
entities_with_blueprint(entity_specs) == SelectSeq(entity_specs, HasColon)
entities_without_blueprint(entity_specs) ==
    SelectSeq(entity_specs, LAMBDA spec : ~HasColon(spec))

\* ------------------------------------------------------------ serializer

FixedColumns ==
    {"blueprint_id", "entity_id", "title", "created_at", "updated_at",
     "created_by", "updated_by"}

\* The csv row of one entity: the seven fixed columns, then a prop_ column per
\* property and a rel_ column per relation.
FlattenRow(blueprint_id, entity) ==
    LET properties == Get(entity, "properties", EmptyMap)
        relations == Get(entity, "relations", EmptyMap)
        fixed ==
            [blueprint_id |-> blueprint_id,
             entity_id |-> Get(entity, "identifier", ""),
             title |-> Get(entity, "title", ""),
             created_at |-> Get(entity, "createdAt", ""),
             updated_at |-> Get(entity, "updatedAt", ""),
             created_by |-> Get(entity, "createdBy", ""),
             updated_by |-> Get(entity, "updatedBy", "")]
        props ==
            [c \in {"prop_" \o k : k \in DOMAIN properties} |->
                CellText(properties[CHOOSE k \in DOMAIN properties : "prop_" \o k = c])]
        rels ==
            [c \in {"rel_" \o k : k \in DOMAIN relations} |->
                CellText(relations[CHOOSE k \in DOMAIN relations : "rel_" \o k = c])]
    IN  rels @@ props @@ fixed

\* flattened_data: the rows of every entity, blueprint by blueprint.
RECURSIVE FlattenAll(_)
FlattenAll(d) ==
    IF d = <<>> THEN <<>>
    ELSE [i \in 1..Len(Head(d).v) |-> FlattenRow(Head(d).k, Head(d).v[i])]
             \o FlattenAll(Tail(d))

\* Field names taken from the first row alone.
Fieldnames_FirstRow(rows) == DOMAIN rows[1]

\* fieldnames: the union of the rows' keys.
Fieldnames(rows) == UNION {DOMAIN rows[i] : i \in 1..Len(rows)}

\* Every column name a run can produce, in the order sorted() gives them.
ColumnOrder ==
    <<"blueprint_id", "created_at", "created_by", "entity_id", "prop_env",
      "prop_tier", "rel_owner", "title", "updated_at", "updated_by">>

\* sorted(fieldnames)
SortedColumns(names) == SelectSeq(ColumnOrder, LAMBDA c : c \in names)

\* DictWriter.writerow: a cell per header column, '' (restval) for a column the
\* row lacks.
WrittenRow(row, names) == [c \in names |-> IF c \in DOMAIN row THEN row[c] ELSE ""]

\* What save_entities leaves on disk.
NoContent == <<>>

DocumentContent(fmt, d) == <<[format |-> fmt, doc |-> d]>>

TableContent(rows) ==
    <<[format |-> "csv",
       header |-> SortedColumns(Fieldnames(rows)),
       rows |-> [i \in 1..Len(rows) |-> WrittenRow(rows[i], Fieldnames(rows))]]>>

\* open(output_path, 'w') and the write that follows.
Written(f, content) ==
    [state |-> "written", writes |-> f.writes + 1, content |-> content]

\* A csv save that opens the file before it looks at the rows.
save_entities_OpensFirst(f, d, fmt) ==
    IF fmt \in {"json", "yaml"} THEN Written(f, DocumentContent(fmt, d))
    ELSE Written(f, TableContent(FlattenAll(d)))

\* save_entities(): the file after a save that meets no I/O error.
save_entities(f, d, fmt) ==
    IF fmt \in {"json", "yaml"} THEN Written(f, DocumentContent(fmt, d))
    ELSE IF FlattenAll(d) # <<>> THEN Written(f, TableContent(FlattenAll(d)))
    ELSE f

\* ------------------------------------------------------------------ main

\* One catalog request, as the log of requests keeps it.
Call(op, blueprint_id, entity_id, ok, got, kept, src) ==
    [op |-> op, bp |-> blueprint_id, id |-> entity_id, ok |-> ok, got |-> got,
     kept |-> kept, src |-> src]

\* A validation that only asks for some export option.
valid_options_AtLeastOne(all_flag, blueprints_opt, entities_opt) ==
    all_flag \/ OptionChosen(blueprints_opt) \/ OptionChosen(entities_opt)

\* sum(bool(option) for option in export_options) == 1
valid_options(all_flag, blueprints_opt, entities_opt) ==
    Cardinality({i \in 1..3 :
        <<all_flag, OptionChosen(blueprints_opt), OptionChosen(entities_opt)>>[i]}) = 1

\* A handler that saves what it has when the run is interrupted.
on_interrupt_SavesPartial(f) == Written(f, DocumentContent(format, exported))

\* The except KeyboardInterrupt handler: it leaves the output file alone.
on_interrupt(f) == f

Init ==
    /\ has_credentials \in BOOLEAN
    /\ export_all \in BOOLEAN
    /\ blueprints \in BlueprintOptions
    /\ entities \in EntityOptions
    /\ exclude \in ExcludeOptions
    /\ format \in Formats
    /\ catalog \in Catalogs
    /\ io_state \in {"absent", "old"}
    /\ pc = "start"
    /\ authorization = "none"
    /\ exclude_set = {}
    /\ exported = <<>>
    /\ queue = <<>>
    /\ bare = <<>>
    /\ inner = 1
    /\ calls = <<>>
    /\ file = [state |-> io_state, writes |-> 0, content |-> NoContent]
    /\ summary = FALSE
    /\ exit_code = -1
    /\ exit_why = "running"
    /\ auth_outcome = "none"
    /\ planner = "none"

\* sys.exit(code), or main returning (code 0).
Exit(code, why) ==
    /\ pc' = "exited"
    /\ exit_code' = code
    /\ exit_why' = why

\* The exporter's working state is left as it is.
KeepPlanner ==
    UNCHANGED <<exclude_set, exported, queue, bare, inner, calls, planner>>

\* main(), up to the validation of the options.
Validate ==
    /\ pc = "start"
    /\ IF ~has_credentials THEN Exit(1, "no_credentials")
       ELSE IF ~valid_options(export_all, blueprints, entities)
            THEN Exit(1, "bad_options")
            ELSE pc' = "auth" /\ UNCHANGED <<exit_code, exit_why>>
    /\ KeepPlanner
    /\ UNCHANGED <<inputs, authorization, file, summary, auth_outcome>>

\* exporter.authenticate() and main's test of it, then the exclude list.
Authenticate(outcome) ==
    /\ pc = "auth"
    /\ auth_outcome' = outcome
    /\ IF authenticate(outcome)
       THEN /\ authorization' = "bearer"
            /\ exclude_set' =
                 IF OptionChosen(exclude)
                 THEN {ParseList(exclude)[i] : i \in 1..Len(ParseList(exclude))}
                 ELSE {}
            /\ pc' = "plan"
            /\ UNCHANGED <<exit_code, exit_why>>
       ELSE /\ Exit(1, "auth_failed")
            /\ UNCHANGED <<authorization, exclude_set>>
    /\ UNCHANGED <<inputs, exported, queue, bare, inner, calls, file, summary,
                   planner>>

\* A loop that returns after its first turn.
LoopOrSave_ReturnsInLoop(rest, loop_pc) == "save"

\* Where the planner goes when the loop over `rest` is entered or resumed.
LoopOrSave(rest, loop_pc) == IF rest = <<>> THEN "save" ELSE loop_pc

\* main's choice of the planner and the planner's setup.
Plan ==
    /\ pc = "plan"
    /\ IF export_all
       THEN /\ planner' = "all"
            /\ pc' = "all_blueprints"
            /\ UNCHANGED <<queue, bare>>
       ELSE IF OptionChosen(blueprints)
       THEN /\ planner' = "blueprints"
            /\ queue' = ParseList(blueprints)
            /\ pc' = LoopOrSave(queue', "bp_loop")
            /\ UNCHANGED bare
       ELSE /\ planner' = "entities"
            /\ queue' = entities_with_blueprint(ParseList(entities))
            /\ bare' = entities_without_blueprint(ParseList(entities))
            /\ pc' = IF queue' # <<>> THEN "ent_explicit"
                     ELSE IF bare' # <<>> THEN "ent_blueprints"
                     ELSE "save"
    /\ UNCHANGED <<inputs, authorization, exclude_set, exported, inner, calls,
                   file, summary, exit_code, exit_why, auth_outcome>>

\* A request that raised past the client ends in main's except Exception.
Raised ==
    /\ Exit(1, "fetch_raised")
    /\ UNCHANGED <<exported, queue, inner>>

\* export_all_entities(): get_blueprints() and the test of its result.
AllGetBlueprints(ok) ==
    /\ pc = "all_blueprints"
    /\ LET r == get_blueprints(ok)
       IN  /\ calls' = Append(calls, Call("listCollections", "", "", ok, r.value, <<>>, "all"))
           /\ IF r.raised THEN Raised
              ELSE /\ queue' = r.value
                   /\ pc' = LoopOrSave(r.value, "all_loop")
                   /\ UNCHANGED <<exported, inner, exit_code, exit_why>>
    /\ UNCHANGED <<inputs, authorization, exclude_set, bare, file, summary,
                   auth_outcome, planner>>

\* export_all_entities(): one turn of the loop over the blueprints.
AllIteration(ok) ==
    /\ pc = "all_loop"
    /\ LET blueprint == Head(queue)
           r == get_entities_for_blueprint(blueprint["identifier"], ok)
           filtered == FilterEntities(r.value, exclude_set)
       IN  IF ~HasIdentifier(blueprint)
           THEN /\ queue' = Tail(queue)
                /\ pc' = LoopOrSave(Tail(queue), "all_loop")
                /\ UNCHANGED <<exported, inner, calls, exit_code, exit_why>>
           ELSE /\ calls' = Append(calls,
                      Call("listEntities", blueprint["identifier"], "", ok, r.value,
                           filtered, "all"))
                /\ IF r.raised THEN Raised
                   ELSE /\ exported' =
                             StoreFiltered(exported, blueprint["identifier"], filtered)
                        /\ queue' = Tail(queue)
                        /\ pc' = LoopOrSave(Tail(queue), "all_loop")
                        /\ UNCHANGED <<inner, exit_code, exit_why>>
    /\ UNCHANGED <<inputs, authorization, exclude_set, bare, file, summary,
                   auth_outcome, planner>>

\* export_blueprint_entities(): one turn of the loop over blueprint_ids.
BlueprintIteration(ok) ==
    /\ pc = "bp_loop"
    /\ LET blueprint_id == Head(queue)
           r == get_entities_for_blueprint(blueprint_id, ok)
           filtered == FilterEntities(r.value, exclude_set)
       IN  /\ calls' = Append(calls,
                 Call("listEntities", blueprint_id, "", ok, r.value, filtered, "blueprints"))
           /\ IF r.raised THEN Raised
              ELSE /\ exported' = StoreFiltered(exported, blueprint_id, filtered)
                   /\ queue' = Tail(queue)
                   /\ pc' = LoopOrSave(Tail(queue), "bp_loop")
                   /\ UNCHANGED <<inner, exit_code, exit_why>>
    /\ UNCHANGED <<inputs, authorization, exclude_set, bare, file, summary,
                   auth_outcome, planner>>

\* export_specific_entities(): one turn of the loop over the specs with a ':'.
ExplicitIteration(ok) ==
    /\ pc = "ent_explicit"
    /\ LET blueprint_id == SpecPieces[Head(queue)][1]
           entity_id == SpecPieces[Head(queue)][2]
           r == get_entity(blueprint_id, entity_id, ok)
       IN  /\ calls' = Append(calls,
                 Call("getEntity", blueprint_id, entity_id, ok, r.value, <<>>, "explicit"))
           /\ IF r.raised THEN Raised
              ELSE /\ exported' = AppendFound(exported, blueprint_id, r.value)
                   /\ queue' = Tail(queue)
                   /\ pc' = IF Tail(queue) # <<>> THEN "ent_explicit"
                            ELSE IF bare # <<>> THEN "ent_blueprints"
                            ELSE "save"
                   /\ UNCHANGED <<inner, exit_code, exit_why>>
    /\ UNCHANGED <<inputs, authorization, exclude_set, bare, file, summary,
                   auth_outcome, planner>>

\* export_specific_entities(): get_blueprints() for the specs without a ':'.
SearchGetBlueprints(ok) ==
    /\ pc = "ent_blueprints"
    /\ LET r == get_blueprints(ok)
       IN  /\ calls' = Append(calls, Call("listCollections", "", "", ok, r.value, <<>>, "bare"))
           /\ IF r.raised THEN Raised
              ELSE /\ queue' = r.value
                   /\ inner' = 1
                   /\ pc' = LoopOrSave(r.value, "ent_search")
                   /\ UNCHANGED <<exported, exit_code, exit_why>>
    /\ UNCHANGED <<inputs, authorization, exclude_set, bare, file, summary,
                   auth_outcome, planner>>

\* export_specific_entities(): one turn of the inner loop (a blueprint and an
\* entity id without blueprint), or the skip of a blueprint without identifier.
SearchIteration(ok) ==
    /\ pc = "ent_search"
    /\ LET blueprint == Head(queue)
           r == get_entity(blueprint["identifier"], bare[inner], ok)
           last == inner = Len(bare)
           rest == IF last THEN Tail(queue) ELSE queue
       IN  IF ~HasIdentifier(blueprint)
           THEN /\ queue' = Tail(queue)
                /\ inner' = 1
                /\ pc' = LoopOrSave(Tail(queue), "ent_search")
                /\ UNCHANGED <<exported, calls, exit_code, exit_why>>
           ELSE /\ calls' = Append(calls,
                      Call("getEntity", blueprint["identifier"], bare[inner], ok,
                           r.value, <<>>, "bare"))
                /\ IF r.raised THEN Raised
                   ELSE /\ exported' =
                             AppendFound(exported, blueprint["identifier"], r.value)
                        /\ queue' = rest
                        /\ inner' = IF last THEN 1 ELSE inner + 1
                        /\ pc' = LoopOrSave(rest, "ent_search")
                        /\ UNCHANGED <<exit_code, exit_why>>
    /\ UNCHANGED <<inputs, authorization, exclude_set, bare, file, summary,
                   auth_outcome, planner>>

\* exporter.save_entities() and the return of main; an I/O error is raised
\* again and ends in main's except Exception.
Save(io_ok) ==
    /\ pc = "save"
    /\ IF io_ok
       THEN /\ file' = save_entities(file, exported, format)
            /\ summary' = TRUE
            /\ Exit(0, "done")
       ELSE /\ Exit(1, "save_failed")
            /\ UNCHANGED <<file, summary>>
    /\ KeepPlanner
    /\ UNCHANGED <<inputs, authorization, auth_outcome>>

\* Ctrl-C while the planner retrieves: main's except KeyboardInterrupt.
Interrupt ==
    /\ pc \in RetrievalPcs \cup {"plan"}
    /\ file' = on_interrupt(file)
    /\ Exit(1, "cancelled")
    /\ KeepPlanner
    /\ UNCHANGED <<inputs, authorization, summary, auth_outcome>>

\* Ctrl-C during authenticate(), outside main's try: click aborts the command.
InterruptAuthenticate ==
    /\ pc = "auth"
    /\ Exit(1, "aborted")
    /\ KeepPlanner
    /\ UNCHANGED <<inputs, authorization, file, summary, auth_outcome>>

\* Ctrl-C inside save_entities(): before the file is opened, or after open()
\* truncated it.
InterruptSave ==
    /\ pc = "save"
    /\ \/ file' = file
       \/ /\ save_entities(file, exported, format) # file
          /\ file' = [state |-> "partial", writes |-> file.writes + 1,
                      content |-> NoContent]
    /\ Exit(1, "cancelled_in_save")
    /\ KeepPlanner
    /\ UNCHANGED <<inputs, authorization, summary, auth_outcome>>

Next ==
    \/ Validate
    \/ \E outcome \in AuthOutcomes : Authenticate(outcome)
    \/ Plan
    \/ \E ok \in BOOLEAN : AllGetBlueprints(ok)
    \/ \E ok \in BOOLEAN : AllIteration(ok)
    \/ \E ok \in BOOLEAN : BlueprintIteration(ok)
    \/ \E ok \in BOOLEAN : ExplicitIteration(ok)
    \/ \E ok \in BOOLEAN : SearchGetBlueprints(ok)
    \/ \E ok \in BOOLEAN : SearchIteration(ok)
    \/ \E io_ok \in BOOLEAN : Save(io_ok)
    \/ Interrupt
    \/ InterruptAuthenticate
    \/ InterruptSave

Spec == Init /\ [][Next]_vars

\* ---------------------------------------------------------------- claims

\* The requests of one kind, in the order sent.
CallsOf(op) == SelectSeq(calls, LAMBDA c : c.op = op)

\* The file as it was before the run.
InitialFile == [state |-> io_state, writes |-> 0, content |-> NoContent]

\* The planner has returned: main is at, or past, save_entities.
RetrievalDone ==
    pc = "save" \/ (pc = "exited" /\ exit_why \in {"done", "save_failed", "cancelled_in_save"})

\* C1 as stated: in all-entities and named-collections mode the entities kept
\* from each listEntities answer S are exactly the entities of S whose
\* identifier is not in the exclusion set, in order, an entity without
\* identifier or with an empty one counting as not excluded.
C1_KeptAllNotExcluded ==
    \A i \in 1..Len(calls) :
        calls[i].op = "listEntities" =>
            calls[i].kept =
                SelectSeq(calls[i].got,
                          LAMBDA e : ~("identifier" \in DOMAIN e
                                       /\ e["identifier"] \in exclude_set))

\* C1 amended: the entities kept from each listEntities answer S are exactly
\* the entities of S that carry a non-empty identifier which is not in the
\* exclusion set, in the order of S; and a non-empty selection is what the
\* result holds for that collection.
C1_KeptIdentifiedNotExcluded ==
    \A i \in 1..Len(calls) :
        calls[i].op = "listEntities" =>
            /\ calls[i].kept =
                 SelectSeq(calls[i].got,
                           LAMBDA e : /\ "identifier" \in DOMAIN e
                                      /\ e["identifier"] # ""
                                      /\ e["identifier"] \notin exclude_set)
            /\ calls[i].kept # <<>> =>
                 /\ DictHas(exported, calls[i].bp)
                 /\ DictGet(exported, calls[i].bp) = calls[i].kept

\* C1 witness: an answer holding an excluded entity, an entity without
\* identifier and a kept entity has been filtered.
C1_Witness ==
    \E i \in 1..Len(calls) :
        /\ calls[i].op = "listEntities"
        /\ calls[i].kept # <<>>
        /\ \E j \in 1..Len(calls[i].got) : ~HasIdentifier(calls[i].got[j])
        /\ \E j \in 1..Len(calls[i].got) :
               /\ HasIdentifier(calls[i].got[j])
               /\ calls[i].got[j]["identifier"] \in exclude_set

\* The specs of --entities as main hands them to the planner, and their two
\* kinds.
GivenSpecs == SelectSeq(entities.parts, LAMBDA item : item # "")
ExplicitSpecs == SelectSeq(GivenSpecs, LAMBDA spec : Len(SpecPieces[spec]) = 2)
BareSpecs == SelectSeq(GivenSpecs, LAMBDA spec : Len(SpecPieces[spec]) = 1)

\* The getEntity requests made for the specs of one kind, in the order sent.
EntityCalls(src) == SelectSeq(calls, LAMBDA c : c.op = "getEntity" /\ c.src = src)

\* The entities the getEntity requests on one collection found, in the order
\* found.
RECURSIVE FoundUnder(_, _)
FoundUnder(log, c) ==
    IF log = <<>> THEN <<>>
    ELSE (IF Head(log).op = "getEntity" /\ Head(log).bp = c THEN Head(log).got ELSE <<>>)
             \o FoundUnder(Tail(log), c)

\* The result's sequence under a collection, empty when the key is absent.
Under(d, c) == IF DictHas(d, c) THEN DictGet(d, c) ELSE <<>>

CollectionIds == {"infra", "net"}

\* C2: in named-entities mode the i-th explicit spec "c:e" causes the i-th
\* getEntity request, for (c, e), one request per spec; listCollections is not
\* requested unless a bare spec is given; and the exclusion set has no effect:
\* whatever it holds, the result under each collection is the sequence of the
\* entities the getEntity requests on that collection found.
C2_ExplicitSpecsOneCallNoExclusion ==
    planner = "entities" =>
        /\ Len(EntityCalls("explicit")) <= Len(ExplicitSpecs)
        /\ \A i \in 1..Len(EntityCalls("explicit")) :
               /\ EntityCalls("explicit")[i].bp = SpecPieces[ExplicitSpecs[i]][1]
               /\ EntityCalls("explicit")[i].id = SpecPieces[ExplicitSpecs[i]][2]
        /\ RetrievalDone => Len(EntityCalls("explicit")) = Len(ExplicitSpecs)
        /\ BareSpecs = <<>> => CallsOf("listCollections") = <<>>
        /\ \A c \in CollectionIds \cup DictKeys(exported) :
               Under(exported, c) = FoundUnder(calls, c)

\* C2 witness: a run of explicit specs only has ended, and its result holds an
\* entity whose identifier is in the exclusion set.
C2_Witness ==
    /\ planner = "entities"
    /\ pc = "exited" /\ exit_why = "done"
    /\ ExplicitSpecs # <<>> /\ BareSpecs = <<>>
    /\ \E i \in 1..Len(exported) : \E j \in 1..Len(exported[i].v) :
           exported[i].v[j]["identifier"] \in exclude_set

\* The identifiers of the descriptors that carry one, in the order listed.
RECURSIVE ListedIds(_)
ListedIds(descriptors) ==
    IF descriptors = <<>> THEN <<>>
    ELSE (IF "identifier" \in DOMAIN Head(descriptors) /\ Head(descriptors)["identifier"] # ""
          THEN <<Head(descriptors)["identifier"]>> ELSE <<>>)
             \o ListedIds(Tail(descriptors))

\* C3: in named-entities mode with at least one bare spec, once retrieval is
\* over listCollections was requested exactly once, getEntity was requested
\* for every pair of a listed collection identifier and a bare id (collection
\* by collection, the bare ids in input order), and every such request that
\* hit left its entity in the result under the collection it was made on.
C3_BareSpecsSearchEveryCollection ==
    (planner = "entities" /\ BareSpecs # <<>> /\ RetrievalDone) =>
        /\ Len(CallsOf("listCollections")) = 1
        /\ LET ids == ListedIds(CallsOf("listCollections")[1].got)
               n == Len(BareSpecs)
               searched == EntityCalls("bare")
           IN  /\ Len(searched) = Len(ids) * n
               /\ \A k \in 1..Len(ids) : \A j \in 1..n :
                      /\ searched[(k - 1) * n + j].bp = ids[k]
                      /\ searched[(k - 1) * n + j].id = BareSpecs[j]
               /\ \A i \in 1..Len(searched) :
                      searched[i].got # <<>> =>
                          \E m \in 1..Len(Under(exported, searched[i].bp)) :
                              Under(exported, searched[i].bp)[m] = searched[i].got[1]

\* C3 witness: a run has ended in which one bare id was found under two
\* collections and the result holds it under both.
C3_Witness ==
    /\ planner = "entities" /\ pc = "exited" /\ exit_why = "done"
    /\ \E i, j \in 1..Len(EntityCalls("bare")) :
           LET a == EntityCalls("bare")[i]
               b == EntityCalls("bare")[j]
           IN  /\ a.bp # b.bp /\ a.id = b.id
               /\ a.got # <<>> /\ b.got # <<>>
               /\ \E m \in 1..Len(Under(exported, a.bp)) :
                      Under(exported, a.bp)[m]["identifier"] = a.id
               /\ \E m \in 1..Len(Under(exported, b.bp)) :
                      Under(exported, b.bp)[m]["identifier"] = a.id

\* The specs ["infra:db-1", "db-1"] against the collections infra and net, both
\* holding db-1, with every request answered.
C4_Scenario ==
    /\ planner = "entities"
    /\ GivenSpecs = <<"infra:db-1", "db-1">>
    /\ catalog = CatalogPlain
    /\ \A i \in 1..Len(calls) : calls[i].ok

\* C4: named-entities mode does not deduplicate. Once retrieval is over, the
\* length of the result under each collection c is the number of explicit
\* specs "c:e" whose getEntity hit plus the number of bare specs whose
\* getEntity on c hit, each counted with multiplicity; in the scenario the
\* result is infra -> [db-1, db-1], net -> [db-1].
C4_NoDeduplication ==
    (planner = "entities" /\ RetrievalDone) =>
        /\ \A c \in CollectionIds \cup DictKeys(exported) :
               LET ids == IF CallsOf("listCollections") = <<>> THEN <<>>
                          ELSE ListedIds(CallsOf("listCollections")[1].got)
                   n == Len(BareSpecs)
                   explicitHits ==
                       {i \in 1..Len(ExplicitSpecs) :
                           /\ SpecPieces[ExplicitSpecs[i]][1] = c
                           /\ EntityCalls("explicit")[i].got # <<>>}
                   bareHits ==
                       {p \in (1..Len(ids)) \X (1..n) :
                           /\ ids[p[1]] = c
                           /\ EntityCalls("bare")[(p[1] - 1) * n + p[2]].got # <<>>}
               IN  Len(Under(exported, c)) =
                       Cardinality(explicitHits) + Cardinality(bareHits)
        /\ C4_Scenario =>
               exported = <<[k |-> "infra", v |-> <<DbInfra, DbInfra>>],
                            [k |-> "net", v |-> <<DbNet>>]>>

\* C4 witness: the scenario's run has ended with db-1 twice under infra.
C4_Witness ==
    /\ C4_Scenario
    /\ pc = "exited" /\ exit_why = "done"
    /\ Len(Under(exported, "infra")) = 2
    /\ Under(exported, "infra")[1] = Under(exported, "infra")[2]

\* C5: in every mode and at every point of the run, whatever the catalog
\* answered, whichever requests failed and whatever the exclusion set is, no
\* key of the export result is mapped to an empty sequence; nor is one in the
\* document written from it.
C5_NoEmptyCollection ==
    /\ \A i \in 1..Len(exported) : exported[i].v # <<>>
    /\ \A i \in 1..Len(file.content) :
           file.content[i].format \in {"json", "yaml"} =>
               \A j \in 1..Len(file.content[i].doc) : file.content[i].doc[j].v # <<>>

\* C5 witness: a run has ended in which one collection's answer was not empty
\* but was excluded whole, another collection was kept, and the first is not a
\* key of the result.
C5_Witness ==
    /\ pc = "exited" /\ exit_why = "done"
    /\ exported # <<>>
    /\ \E i \in 1..Len(calls) :
           /\ calls[i].op = "listEntities"
           /\ calls[i].got # <<>>
           /\ calls[i].kept = <<>>
           /\ ~DictHas(exported, calls[i].bp)

\* C6: once the token endpoint has answered with a transport error, a non-2xx
\* status or a body without token, the process has exited with a non-zero
\* status on main's test of authenticate()'s False, the session carries no
\* bearer token, no catalog request was sent, no planner ran, the output file
\* is as it was and no summary was printed.
C6_AuthenticationFailureIsTerminal ==
    auth_outcome \in {"transport_error", "http_error", "no_token"} =>
        /\ pc = "exited"
        /\ exit_why = "auth_failed"
        /\ exit_code # 0
        /\ authorization = "none"
        /\ calls = <<>>
        /\ planner = "none"
        /\ file = InitialFile
        /\ ~summary

\* C6 witness: the token endpoint answered 2xx without a token and the process
\* has exited, the output file of an earlier run being still there.
C6_Witness ==
    /\ auth_outcome = "no_token"
    /\ pc = "exited"
    /\ exit_code = 1
    /\ file.state = "old"

\* The collections the listEntities requests were made on, in the order sent.
ListedFor == [i \in 1..Len(CallsOf("listEntities")) |-> CallsOf("listEntities")[i].bp]

\* The entities of a stored collection that the filter lets through.
Survivors(c) ==
    SelectSeq(catalog.entities[c],
              LAMBDA e : /\ "identifier" \in DOMAIN e
                         /\ e["identifier"] # ""
                         /\ e["identifier"] \notin exclude_set)

\* C7: a failed request never ends the run. No exit is taken because a
\* request raised; once retrieval is over every request of the plan was sent
\* (every listed collection in all-entities mode, every supplied collection in
\* named-collections mode, every explicit spec and every pair in
\* named-entities mode) however many of them failed; the result holds the
\* surviving entities of every collection whose listEntities succeeded; and a
\* run that then saves without I/O error ends with status 0 and the summary.
C7_FetchFailureNeverAborts ==
    /\ exit_why # "fetch_raised"
    /\ RetrievalDone =>
        /\ planner = "all" =>
               /\ Len(CallsOf("listCollections")) = 1
               /\ ListedFor = ListedIds(CallsOf("listCollections")[1].got)
        /\ planner = "blueprints" =>
               ListedFor = SelectSeq(blueprints.parts, LAMBDA item : item # "")
        /\ planner = "entities" =>
               /\ Len(EntityCalls("explicit")) = Len(ExplicitSpecs)
               /\ BareSpecs # <<>> =>
                      Len(EntityCalls("bare")) =
                          Len(ListedIds(CallsOf("listCollections")[1].got)) * Len(BareSpecs)
        /\ \A i \in 1..Len(calls) :
               (calls[i].op = "listEntities" /\ calls[i].ok
                    /\ calls[i].bp \in DOMAIN catalog.entities
                    /\ Survivors(calls[i].bp) # <<>>) =>
                   Under(exported, calls[i].bp) = Survivors(calls[i].bp)
        /\ \A i \in 1..Len(calls) :
               (calls[i].op = "getEntity" /\ calls[i].got # <<>>) =>
                   \E m \in 1..Len(Under(exported, calls[i].bp)) :
                       Under(exported, calls[i].bp)[m] = calls[i].got[1]
    /\ (pc = "exited" /\ exit_why = "done") => (summary /\ exit_code = 0)

\* C7 witness: a run has ended with status 0 and the summary although a
\* listEntities request failed, and the result holds the entities of a
\* collection requested after the failure.
C7_Witness ==
    /\ pc = "exited" /\ exit_why = "done" /\ summary /\ exit_code = 0
    /\ \E i, j \in 1..Len(calls) :
           /\ i < j
           /\ calls[i].op = "listEntities" /\ ~calls[i].ok
           /\ calls[j].op = "listEntities" /\ calls[j].ok
           /\ calls[j].kept # <<>>
           /\ Under(exported, calls[j].bp) = calls[j].kept
           /\ ~DictHas(exported, calls[i].bp)

\* C8: in every run the output file is opened for writing at most once, and
\* only by save_entities after the planner's last request has returned: the
\* step that changes the file sends no request and ends the run. A run
\* interrupted while the planner retrieves leaves the file as it was before
\* the run (absent, or the old file untouched).
C8_WrittenOnceAfterRetrieval ==
    /\ [](/\ file.writes <= 1
          /\ file # InitialFile =>
                 (pc = "exited" /\ exit_why \in {"done", "cancelled_in_save"})
          /\ exit_why = "cancelled" => file = InitialFile)
    /\ [][file' # file => (pc = "save" /\ calls' = calls /\ pc' = "exited")]_vars

\* C8 witness: a run was interrupted in the middle of retrieval, after it had
\* received entities and with requests still to send, an old output file
\* being there.
C8_Witness ==
    /\ pc = "exited" /\ exit_why = "cancelled"
    /\ exported # <<>>
    /\ queue # <<>>
    /\ io_state = "old"
    /\ file = InitialFile

\* How many of --all, --blueprints, --entities the caller chose (an option
\* given with the empty text counts as not chosen, as bool('') is False).
ChosenCount ==
    (IF export_all THEN 1 ELSE 0)
        + (IF blueprints.given /\ blueprints.parts # <<"">> THEN 1 ELSE 0)
        + (IF entities.given /\ entities.parts # <<"">> THEN 1 ELSE 0)

\* The one mode chosen, when exactly one is.
ChosenMode ==
    IF export_all THEN "all"
    ELSE IF blueprints.given /\ blueprints.parts # <<"">> THEN "blueprints"
    ELSE "entities"

\* C9: when the number of chosen scope selectors is not one, the process never
\* gets past the validation: it exits with a non-zero status before the
\* authentication request, without a catalog request, a planner or a file
\* write. When exactly one is chosen, no planner but that mode's ever runs and
\* every request is one of that mode; a run that authenticated and got past
\* main's dispatch has run that planner.
C9_ExactlyOneScopeSelector ==
    /\ ChosenCount # 1 =>
           /\ pc \in {"start", "exited"}
           /\ pc = "exited" => (exit_code # 0 /\ exit_why \in {"no_credentials", "bad_options"})
           /\ auth_outcome = "none" /\ authorization = "none"
           /\ calls = <<>> /\ planner = "none"
           /\ file = InitialFile
    /\ ChosenCount = 1 =>
           /\ planner \in {"none", ChosenMode}
           /\ \A i \in 1..Len(calls) :
                  calls[i].src \in (IF ChosenMode = "entities"
                                     THEN {"explicit", "bare"}
                                     ELSE {ChosenMode})
           /\ (pc \in RetrievalPcs \cup {"save"} \/ exit_why \in {"done", "save_failed", "cancelled_in_save"})
                  => planner = ChosenMode
           /\ (pc \in {"all_blueprints", "all_loop"}) => ChosenMode = "all"
           /\ (pc = "bp_loop") => ChosenMode = "blueprints"
           /\ (pc \in {"ent_explicit", "ent_blueprints", "ent_search"}) => ChosenMode = "entities"

\* C9 witness: two selectors were chosen, one of them --all, and the process
\* has exited on the validation with credentials present.
C9_Witness ==
    /\ ChosenCount = 2 /\ export_all
    /\ has_credentials
    /\ pc = "exited" /\ exit_why = "bad_options" /\ exit_code = 1

\* The entities of a result with the collection each is kept under, collection
\* by collection.
RECURSIVE EntityRows(_)
EntityRows(d) ==
    IF d = <<>> THEN <<>>
    ELSE [i \in 1..Len(Head(d).v) |-> [bp |-> Head(d).k, entity |-> Head(d).v[i]]]
             \o EntityRows(Tail(d))

\* The keys of an entity's properties or relations mapping.
KeysOf(entity, field) == IF field \in DOMAIN entity THEN DOMAIN entity[field] ELSE {}

\* The columns the claim names for a result: the seven fixed ones, prop_k for
\* every property key and rel_k for every relation key of any entity.
ClaimedColumns(d) ==
    {"blueprint_id", "entity_id", "title", "created_at", "updated_at", "created_by",
     "updated_by"}
        \cup UNION {{"prop_" \o k : k \in KeysOf(EntityRows(d)[i].entity, "properties")} :
                        i \in 1..Len(EntityRows(d))}
        \cup UNION {{"rel_" \o k : k \in KeysOf(EntityRows(d)[i].entity, "relations")} :
                        i \in 1..Len(EntityRows(d))}

\* C10: a csv save of a non-empty result writes the table; the table has one
\* row per entity of the result, in result order; its header holds each of the
\* claimed columns once and nothing else; every row has a cell for every
\* column; and the cell of a prop_ or rel_ column whose key the row's entity
\* lacks is the empty text.
C10_CsvRowsAndColumns ==
    /\ (format = "csv" /\ exit_why = "done" /\ exported # <<>>) =>
           (file.state = "written" /\ file.content # NoContent)
    /\ \A n \in 1..Len(file.content) :
           file.content[n].format = "csv" =>
               LET table == file.content[n]
                   rows == EntityRows(exported)
                   columns == ClaimedColumns(exported)
               IN  /\ Len(table.rows) = Len(rows)
                   /\ {table.header[i] : i \in 1..Len(table.header)} = columns
                   /\ Len(table.header) = Cardinality(columns)
                   /\ \A i \in 1..Len(rows) :
                          /\ DOMAIN table.rows[i] = columns
                          /\ table.rows[i]["blueprint_id"] = rows[i].bp
                          /\ table.rows[i]["entity_id"] = rows[i].entity["identifier"]
                          /\ \A c \in columns :
                                 (/\ c \notin FixedColumns
                                  /\ c \notin {"prop_" \o k : k \in KeysOf(rows[i].entity, "properties")}
                                  /\ c \notin {"rel_" \o k : k \in KeysOf(rows[i].entity, "relations")})
                                     => table.rows[i][c] = ""

\* C10 witness: a table was written whose first row is of an entity lacking a
\* property key that a later entity has.
C10_Witness ==
    /\ pc = "exited" /\ exit_why = "done"
    /\ file.state = "written"
    /\ \E n \in 1..Len(file.content) :
           /\ file.content[n].format = "csv"
           /\ Len(file.content[n].rows) >= 2
           /\ \E c \in ClaimedColumns(exported) :
                  /\ c \notin FixedColumns
                  /\ c \notin {"prop_" \o k : k \in KeysOf(EntityRows(exported)[1].entity, "properties")}
                  /\ c \notin {"rel_" \o k : k \in KeysOf(EntityRows(exported)[1].entity, "relations")}
                  /\ file.content[n].rows[1][c] = ""

\* C11: a csv save of a result without entities writes nothing: the output
\* file is as it was before the run (still absent, or the old file neither
\* truncated nor replaced by a header-only table), and the save still
\* completes as a success, with the summary printed and exit status 0.
C11_EmptyCsvWritesNothing ==
    (format = "csv" /\ pc = "exited" /\ exit_why = "done"
         /\ Len(EntityRows(exported)) = 0) =>
        /\ file = InitialFile
        /\ file.writes = 0
        /\ file.content = NoContent
        /\ summary
        /\ exit_code = 0

\* C11 witness: a csv run over an old output file has ended as a success after
\* the catalog answered with entities that were all excluded.
C11_Witness ==
    /\ format = "csv" /\ pc = "exited" /\ exit_why = "done" /\ summary
    /\ exported = <<>>
    /\ io_state = "old" /\ file.state = "old"
    /\ \E i \in 1..Len(calls) : calls[i].op = "listEntities" /\ calls[i].got # <<>>

\* The collections main hands to export_blueprint_entities: the pieces of
\* --blueprints that are not empty, in the order given.
SuppliedBlueprints == SelectSeq(blueprints.parts, LAMBDA item : item # "")

\* The collections of the listEntities answers that kept an entity, each once,
\* in the order of its first such answer.
RECURSIVE FirstKept(_, _)
FirstKept(log, seen) ==
    IF log = <<>> THEN <<>>
    ELSE IF Head(log).op = "listEntities" /\ Head(log).kept # <<>>
            /\ Head(log).bp \notin seen
         THEN <<Head(log).bp>> \o FirstKept(Tail(log), seen \cup {Head(log).bp})
         ELSE FirstKept(Tail(log), seen)

RECURSIVE FoundBy(_, _, _)
FoundBy(log, c, src) ==
    IF log = <<>> THEN <<>>
    ELSE (IF Head(log).op = "getEntity" /\ Head(log).bp = c /\ Head(log).src = src
          THEN Head(log).got ELSE <<>>)
             \o FoundBy(Tail(log), c, src)

\* C13: in named-entities mode every getEntity request for an explicit spec
\* is sent before the listCollections request and before every getEntity
\* request for a bare spec, wherever the specs stand in the input; the
\* explicit requests follow the order of the explicit specs; and the result
\* under each collection is the entities found for explicit specs followed by
\* the entities found for bare specs.
C13_ExplicitBeforeBare ==
    planner = "entities" =>
        /\ \A i, j \in 1..Len(calls) :
               (calls[i].src = "bare" /\ calls[j].src = "explicit") => j < i
        /\ \A i \in 1..Len(calls) :
               calls[i].op = "listCollections" =>
                   Len(EntityCalls("explicit")) = Len(ExplicitSpecs)
        /\ \A i \in 1..Len(EntityCalls("explicit")) :
               /\ EntityCalls("explicit")[i].bp = SpecPieces[ExplicitSpecs[i]][1]
               /\ EntityCalls("explicit")[i].id = SpecPieces[ExplicitSpecs[i]][2]
        /\ \A c \in CollectionIds \cup DictKeys(exported) :
               Under(exported, c) =
                   FoundBy(calls, c, "explicit") \o FoundBy(calls, c, "bare")

\* C13 witness: the input names the bare db-1 before the explicit net:web-1,
\* both were found under net, and the result under net holds web-1 before
\* db-1.
C13_Witness ==
    /\ planner = "entities" /\ pc = "exited" /\ exit_why = "done"
    /\ entities.parts = <<"db-1", "net:web-1">>
    /\ Len(Under(exported, "net")) = 2
    /\ Under(exported, "net")[1]["identifier"] = "web-1"
    /\ Under(exported, "net")[2]["identifier"] = "db-1"

====
